---------------------------- MODULE Spec2Model ----------------------------
(***************************************************************************)
(* Model of src/index.ts (dappnode/eth2-nft-challenge): a resumable scan   *)
(* of beacon slots into an append-only CSV record store, a filter pass     *)
(* over the store, and a batched deposit lookup.                           *)
(*                                                                         *)
(* Text is modelled as a sequence of character codes (ASCII), so that the  *)
(* CSV serialisation, String.trim, String.split, parseInt and the base64   *)
(* decoding are computed as the code computes them.  Only codes below 128  *)
(* occur, for which Buffer.toString("utf8") yields the same codes.         *)
(***************************************************************************)
EXTENDS Integers, Sequences, FiniteSets, TLC

(***************************************************************************)
(* Bounds of the model.                                                    *)
(***************************************************************************)
\* number of slots of the configured range after fromSlot
ScanLen == 1
\* number of process runs (the first run and the restarts)
MaxRuns == 2
\* longest byte sequence given to parseGraffiti in SpecGraffiti
MaxBytes == 4
\* longest validator index list given to fetchDepositAddresses in SpecBatch
MaxIndexes == 250
\* longest deposit list of one resolver response in SpecDeposit
MaxDeposits == 2

(***************************************************************************)
(* Program constants.  The slot range of the source (327600..442799) is    *)
(* scaled down; amounts are counted in units of 10^9 base units, so that   *)
(* the threshold 32000000000 of the source is 32.                          *)
(***************************************************************************)
fromSlot == 9
toSlot == fromSlot + ScanLen
step == 100
MinDeposit == 32

\* character codes
separator == 44
NL == 10
EQ == 61

\* JavaScript's NaN and null, as values outside the naturals
NaN == -1
Null == -2

\* "dappnode", the source of the pattern /dappnode/i
graffitiToMatch == <<100, 97, 112, 112, 110, 111, 100, 101>>

(***************************************************************************)
(* JavaScript string primitives used by the program.                       *)
(***************************************************************************)
Min(a, b) == IF a <= b THEN a ELSE b

\* the white space String.prototype.trim and parseInt strip
IsSpace(c) == c \in {9, 10, 11, 12, 13, 32}

IsDigit(c) == c >= 48 /\ c <= 57

\* String.prototype.trim
trim(s) ==
  LET keep == {k \in 1..Len(s) : ~IsSpace(s[k])}
  IN  IF keep = {} THEN <<>>
      ELSE LET lo == CHOOSE k \in keep : \A m \in keep : k <= m
               hi == CHOOSE k \in keep : \A m \in keep : k >= m
           IN  SubSeq(s, lo, hi)

\* String.prototype.split with a one-character separator
RECURSIVE split(_, _)
split(s, sep) ==
  IF \A k \in 1..Len(s) : s[k] # sep THEN <<s>>
  ELSE LET at == CHOOSE k \in 1..Len(s) :
                   s[k] = sep /\ \A m \in 1..(k - 1) : s[m] # sep
       IN  <<SubSeq(s, 1, at - 1)>> \o split(SubSeq(s, at + 1, Len(s)), sep)

\* Array.prototype.join of an array of strings
RECURSIVE join(_, _)
join(parts, sep) ==
  IF parts = <<>> THEN <<>>
  ELSE IF Len(parts) = 1 THEN parts[1]
  ELSE parts[1] \o <<sep>> \o join(Tail(parts), sep)

\* the decimal text of a number, as join and template strings render it
RECURSIVE digits(_)
digits(n) == IF n < 10 THEN <<48 + n>> ELSE digits(n \div 10) \o <<48 + (n % 10)>>

numToStr(n) == IF n = NaN THEN <<78, 97, 78>> ELSE digits(n)

\* parseInt: skips leading white space, reads the leading decimal digits,
\* NaN when there is none.  No modelled text carries a sign.
RECURSIVE digitsValue(_, _)
digitsValue(s, acc) ==
  IF s = <<>> \/ ~IsDigit(s[1]) THEN acc
  ELSE digitsValue(Tail(s), acc * 10 + (s[1] - 48))

parseInt(s) ==
  LET rest == IF \A k \in 1..Len(s) : IsSpace(s[k]) THEN <<>>
              ELSE LET lo == CHOOSE k \in 1..Len(s) :
                               ~IsSpace(s[k]) /\ \A m \in 1..(k - 1) : IsSpace(s[m])
                   IN  SubSeq(s, lo, Len(s))
  IN  IF rest = <<>> \/ ~IsDigit(rest[1]) THEN NaN ELSE digitsValue(rest, 0)

\* comparisons and increments of numbers that may be NaN
Leq(a, b) == a # NaN /\ b # NaN /\ a <= b
Geq(a, b) == a # NaN /\ b # NaN /\ a >= b
Inc(a) == IF a = NaN THEN NaN ELSE a + 1

\* /dappnode/i.test(text): a case-insensitive search of the pattern
lower(c) == IF c >= 65 /\ c <= 90 THEN c + 32 ELSE c

test(text) ==
  \E k \in 1..(Len(text) - Len(graffitiToMatch) + 1) :
     \A m \in 1..Len(graffitiToMatch) : lower(text[k + m - 1]) = graffitiToMatch[m]

(***************************************************************************)
(* The record store (class CsvRecord): the text of block-record.csv.       *)
(***************************************************************************)
\* "slot", "proposerIndex", "graffiti" joined by the separator
header ==
  join(<< <<115, 108, 111, 116>>,
          <<112, 114, 111, 112, 111, 115, 101, 114, 73, 110, 100, 101, 120>>,
          <<103, 114, 97, 102, 102, 105, 116, 105>> >>, separator)

Row(s, p, g) == [slot |-> s, proposerIndex |-> p, graffiti |-> g]

\* addEntry: the chunk written to the stream for one record
rowText(r) ==
  join(<<numToStr(r.slot), numToStr(r.proposerIndex), r.graffiti>>, separator)
    \o <<NL>>

\* the rows getLastSlot and readEntries split the file into
rowsOf(text) == split(trim(text), NL)

\* getLastSlot: the slot of the last row, Null with no row but the header
getLastSlot(text) ==
  LET rows == rowsOf(text)
      lastRow == trim(rows[Len(rows)])
  IN  IF lastRow = <<>> \/ lastRow = header THEN Null
      ELSE parseInt(split(lastRow, separator)[1])

\* one row of readEntries: the first two fields parsed, the rest rejoined
parseRow(row) ==
  LET parts == split(row, separator)
  IN  Row(parseInt(parts[1]),
          IF Len(parts) >= 2 THEN parseInt(parts[2]) ELSE NaN,
          IF Len(parts) >= 3 THEN join(SubSeq(parts, 3, Len(parts)), separator)
          ELSE <<>>)

\* readEntries: one entry per row of the file, the first row included
readEntries(text) ==
  LET rows == rowsOf(text)
  IN  [k \in 1..Len(rows) |-> parseRow(rows[k])]

(***************************************************************************)
(* Graffiti: base64 text of NUL-padded bytes.                              *)
(***************************************************************************)
\* the value of a base64 character, -1 for a character outside the alphabet
b64Value(c) ==
  IF c >= 65 /\ c <= 90 THEN c - 65
  ELSE IF c >= 97 /\ c <= 122 THEN c - 71
  ELSE IF c >= 48 /\ c <= 57 THEN c + 4
  ELSE IF c = 43 THEN 62
  ELSE IF c = 47 THEN 63
  ELSE -1

b64Char(v) ==
  IF v <= 25 THEN v + 65
  ELSE IF v <= 51 THEN v + 71
  ELSE IF v <= 61 THEN v - 4
  ELSE IF v = 62 THEN 43
  ELSE 47

\* the base64 text the beacon API sends for a graffiti byte field
RECURSIVE b64Encode(_)
b64Encode(b) ==
  IF b = <<>> THEN <<>>
  ELSE IF Len(b) = 1 THEN
    <<b64Char(b[1] \div 4), b64Char((b[1] % 4) * 16), EQ, EQ>>
  ELSE IF Len(b) = 2 THEN
    <<b64Char(b[1] \div 4), b64Char((b[1] % 4) * 16 + b[2] \div 16),
      b64Char((b[2] % 16) * 4), EQ>>
  ELSE
    <<b64Char(b[1] \div 4), b64Char((b[1] % 4) * 16 + b[2] \div 16),
      b64Char((b[2] % 16) * 4 + b[3] \div 64), b64Char(b[3] % 64)>>
      \o b64Encode(SubSeq(b, 4, Len(b)))

\* Buffer.from(text, "base64"): the bytes of the sextets before the padding
RECURSIVE sextetsToBytes(_)
sextetsToBytes(v) ==
  IF Len(v) < 2 THEN <<>>
  ELSE IF Len(v) = 2 THEN <<v[1] * 4 + v[2] \div 16>>
  ELSE IF Len(v) = 3 THEN
    <<v[1] * 4 + v[2] \div 16, (v[2] % 16) * 16 + v[3] \div 4>>
  ELSE
    <<v[1] * 4 + v[2] \div 16, (v[2] % 16) * 16 + v[3] \div 4,
      (v[3] % 4) * 64 + v[4]>> \o sextetsToBytes(SubSeq(v, 5, Len(v)))

bufferFromBase64(text) ==
  LET body == IF \E k \in 1..Len(text) : text[k] = EQ
              THEN SubSeq(text, 1,
                     (CHOOSE k \in 1..Len(text) :
                        text[k] = EQ /\ \A m \in 1..(k - 1) : text[m] # EQ) - 1)
              ELSE text
      valid == SelectSeq(body, LAMBDA c : b64Value(c) >= 0)
  IN  sextetsToBytes([k \in 1..Len(valid) |-> b64Value(valid[k])])

\* Buffer.prototype.slice(0, end)
slice(buff, end) == SubSeq(buff, 1, Min(end, Len(buff)))

\* the loop of parseGraffiti: it walks the entries of the decoded buffer and,
\* at each zero byte, replaces buff by a slice of the current buff
RECURSIVE truncateLoop(_, _, _)
truncateLoop(orig, k, buff) ==
  IF k > Len(orig) THEN buff
  ELSE truncateLoop(orig, k + 1,
                    IF orig[k] = 0 THEN slice(buff, k - 1) ELSE buff)

\* the same loop slicing the decoded buffer instead of the current one
RECURSIVE truncateLoop_sliceOriginal(_, _, _)
truncateLoop_sliceOriginal(orig, k, buff) ==
  IF k > Len(orig) THEN buff
  ELSE truncateLoop_sliceOriginal(orig, k + 1,
                    IF orig[k] = 0 THEN slice(orig, k - 1) ELSE buff)

parseGraffiti_lastZero(base64) ==
  LET orig == bufferFromBase64(base64)
  IN  truncateLoop_sliceOriginal(orig, 1, orig)

parseGraffiti(base64) ==
  LET orig == bufferFromBase64(base64)
  IN  truncateLoop(orig, 1, orig)

(***************************************************************************)
(* The filter pass and the deposit resolver, as the code computes them.    *)
(***************************************************************************)
Range(q) == {q[k] : k \in 1..Len(q)}

\* Set.prototype.add on a Set kept in insertion order
setAdd_noDedup(q, v) == Append(q, v)

setAdd(q, v) == IF v \in Range(q) THEN q ELSE Append(q, v)

\* the condition of the filter: the slot window and the graffiti pattern
inWindow_exclusiveTo(e) == Geq(e.slot, fromSlot) /\ Leq(Inc(e.slot), toSlot)

inWindow(e) == Geq(e.slot, fromSlot) /\ Leq(e.slot, toSlot)

\* the loop over readEntries() that fills proposerIndexes
RECURSIVE filterLoop(_, _, _)
filterLoop(es, k, acc) ==
  IF k > Len(es) THEN acc
  ELSE filterLoop(es, k + 1,
                  IF inWindow(es[k]) /\ test(es[k].graffiti)
                  THEN setAdd(acc, es[k].proposerIndex) ELSE acc)

\* [...new Set(addresses)]
RECURSIVE unique(_)
unique(q) ==
  IF q = <<>> THEN <<>>
  ELSE LET front == unique(SubSeq(q, 1, Len(q) - 1))
       IN  setAdd(front, q[Len(q)])

\* validatorIndexes.slice(k, k + step)
batch_shortLast(list, k) == SubSeq(list, k + 1, Min(k + step, Len(list) - 1))

batch(list, k) == SubSeq(list, k + 1, Min(k + step, Len(list)))

\* the test that rejects a deposit
isBadDeposit_strict(d) ==
  d.amount <= MinDeposit \/ d.removed \/ ~d.valid_signature

isBadDeposit(d) ==
  d.amount < MinDeposit \/ d.removed \/ ~d.valid_signature

\* the loop over res.data: the addresses pushed and the public keys logged
RECURSIVE goodAddresses(_)
goodAddresses(data) ==
  IF data = <<>> THEN <<>>
  ELSE (IF isBadDeposit(data[1]) THEN <<>> ELSE <<data[1].from_address>>)
         \o goodAddresses(Tail(data))

RECURSIVE badKeys(_)
badKeys(data) ==
  IF data = <<>> THEN <<>>
  ELSE (IF isBadDeposit(data[1]) THEN <<data[1].publickey>> ELSE <<>>)
         \o badKeys(Tail(data))

(***************************************************************************)
(* What the environment may supply.                                        *)
(***************************************************************************)
\* graffiti byte fields, NUL-padded: "DAppNode", "dappnode,x" and "n<LF>7"
gDapp == <<68, 65, 112, 112, 78, 111, 100, 101, 0, 0>>
gComma == <<100, 97, 112, 112, 110, 111, 100, 101, 44, 120, 0>>
gNewline == <<110, 10, 55, 0>>

\* a block of the beacon API: decimal strings and a base64 graffiti
Block(s, p, g) ==
  [slot |-> numToStr(s), proposerIndex |-> numToStr(p),
   body |-> [graffiti |-> b64Encode(g)]]

\* the responses of the beacon API for a slot: no block, one block, two
\* blocks (a fork)
BlockResponses(s) ==
  { <<>>,
    <<Block(s, 5, gDapp)>>,
    <<Block(s, 7, gNewline), Block(s, 6, gComma)>> }

Deposit(a, f, k, r, v) ==
  [amount |-> a, from_address |-> f, publickey |-> k, removed |-> r,
   valid_signature |-> v]

\* the responses of the explorer API used in the run of the whole program
DepositResponses ==
  { <<Deposit(MinDeposit, "0xa", "k1", FALSE, TRUE)>>,
    <<Deposit(MinDeposit - 1, "0xb", "k2", FALSE, TRUE),
      Deposit(MinDeposit + 1, "0xa", "k1", FALSE, TRUE),
      Deposit(MinDeposit + 1, "0xb", "k3", TRUE, TRUE)>> }

\* the record stores a run may find: no file, only the header, and the
\* header followed by the rows of earlier runs; one store has a row whose
\* proposerIndex was not a number when it was appended
RECURSIVE rowsText(_)
rowsText(rs) == IF rs = <<>> THEN <<>> ELSE rowText(rs[1]) \o rowsText(Tail(rs))

InitialRecords ==
  { <<>>,
    <<Row(fromSlot - 2, 8, <<100, 97, 112, 112, 110, 111, 100, 101>>)>>,
    <<Row(fromSlot, 5, <<68, 65, 112, 112, 78, 111, 100, 101>>),
      Row(fromSlot + 1, 6, <<100, 97, 112, 112, 110, 111, 100, 101, 44, 120>>),
      Row(fromSlot + 1, 5, <<68, 65, 112, 112, 78, 111, 100, 101>>)>>,
    <<Row(toSlot + 1, 6, <<100, 97, 112, 112, 110, 111, 100, 101>>)>>,
    <<Row(fromSlot, NaN, <<100, 97, 112, 112, 110, 111, 100, 101>>),
      Row(fromSlot, 5, <<68, 65, 112, 112, 78, 111, 100, 101>>)>> }

(***************************************************************************)
(* State.                                                                  *)
(***************************************************************************)
VARIABLES
  run,              \* number of the process run
  pc,               \* where the run is: "boot", "fetch" (awaiting
                    \* fetchBlock), "resolve" (awaiting the deposits of a
                    \* batch), "done" (runScript returned), "exit1"
  stop,             \* the SIGINT flag
  interruptedAt,    \* history: the slot being fetched when SIGINT came, in
                    \* the run started last
  fileExists,       \* whether block-record.csv exists
  file,             \* its text on disk
  stream,           \* the write stream: "none", "opening", "open"
  pending,          \* chunks written to the stream and not yet on disk
  checkpoint,       \* what getLastSlot() returned in this run
  slot,             \* the loop variable of the scan
  fetched,          \* history: the slots requested in this run
  appended,         \* history: the records given to addEntry, all runs
  returned,         \* history: the records of the blocks the beacon API
                    \* returned, all runs
  entries,          \* what readEntries() returned to the filter pass
  validatorIndexes, \* the index list
  indexesOut,       \* the lines of validatorIndexes.txt
  i,                \* the loop variable of fetchDepositAddresses
  requests,         \* history: the batches requested in this run
  addresses,        \* the address list of fetchDepositAddresses
  logged,           \* the public keys logged as bad deposits
  deposits,         \* history: the deposits received in this run
  addressesOut,     \* the lines of addresses.txt
  written,          \* history: the output files written by the run
                    \* started last
  gIn,              \* SpecGraffiti: the bytes of a graffiti field
  gOut              \* SpecGraffiti: what parseGraffiti returned

vars ==
  <<run, pc, stop, interruptedAt, fileExists, file, stream, pending,
    checkpoint, slot, fetched, appended, returned, entries, validatorIndexes,
    indexesOut, i, requests, addresses, logged, deposits, addressesOut,
    written, gIn, gOut>>

graffitiVars == <<gIn, gOut>>
storeVars == <<fileExists, file, stream, pending>>
scanVars == <<checkpoint, slot, fetched, appended, returned>>
filterVars == <<entries, validatorIndexes, indexesOut>>
resolverVars == <<i, requests, addresses, logged, deposits, addressesOut>>

(***************************************************************************)
(* The initial states: a process about to call runScript, with the record  *)
(* store an earlier run left.                                              *)
(***************************************************************************)
InitRun ==
  /\ run = 1
  /\ stop = FALSE
  /\ interruptedAt = Null
  /\ stream = "none"
  /\ pending = <<>>
  /\ checkpoint = Null
  /\ slot = 0
  /\ fetched = <<>>
  /\ entries = <<>>
  /\ indexesOut = <<>>
  /\ i = 0
  /\ requests = <<>>
  /\ addresses = <<>>
  /\ logged = <<>>
  /\ deposits = <<>>
  /\ written = {}
  /\ gOut = <<>>

Init ==
  /\ InitRun
  /\ pc = "boot"
  /\ validatorIndexes = <<>>
  /\ addressesOut = <<>>
  /\ gIn = <<>>
  /\ \E rs \in InitialRecords, there \in BOOLEAN :
       /\ there \/ rs = <<>>
       /\ fileExists = there
       /\ file = IF there THEN header \o <<NL>> \o rowsText(rs) ELSE <<>>
       /\ appended = rs
       /\ returned = rs

(***************************************************************************)
(* fetchDepositAddresses: the loop test at offset k with the addresses     *)
(* collected so far, and the end of runScript when the loop is over.       *)
(***************************************************************************)
ResolverLoop(k, collected, wr) ==
  /\ i' = k
  /\ addresses' = collected
  /\ IF k < Len(validatorIndexes')
     THEN /\ requests' = Append(requests, batch(validatorIndexes', k))
          /\ pc' = "resolve"
          /\ addressesOut' = addressesOut
          /\ written' = wr
     ELSE /\ requests' = requests
          /\ pc' = "done"
          /\ addressesOut' = unique(collected)
          /\ written' = wr \cup {"addresses"}

(***************************************************************************)
(* The scan loop.                                                          *)
(***************************************************************************)
\* record.getLastSlot() ?? fromSlot
lastSlotOr_max(cp) ==
  IF cp = Null THEN fromSlot
  ELSE IF Leq(cp, fromSlot - 1) THEN fromSlot - 1 ELSE cp

lastSlotOr(cp) == IF cp = Null THEN fromSlot ELSE cp

\* the chunk of the stream whose write is with the thread pool: it may reach
\* the disk while the main thread runs on
inFlight(strm, pend) == IF strm = "open" /\ pend # <<>> THEN {0, 1} ELSE {0}

\* the loop test with slot value s, with the store as the step left it; when
\* the loop is over, the filter pass and the first resolver request follow
\* without an await
LoopTest(s, f, pend, strm, wr) ==
  /\ slot' = s
  /\ stream' = strm
  /\ IF Leq(s, toSlot) /\ ~stop
     THEN /\ fetched' = Append(fetched, s)
          /\ pc' = "fetch"
          /\ file' = f
          /\ pending' = pend
          /\ written' = wr
          /\ UNCHANGED <<filterVars, i, requests, addresses, addressesOut>>
     ELSE /\ fetched' = fetched
          /\ \E landed \in inFlight(strm, pend) :
               /\ file' = IF landed = 1 THEN f \o pend[1] ELSE f
               /\ pending' = IF landed = 1 THEN Tail(pend) ELSE pend
          /\ entries' = readEntries(file')
          /\ validatorIndexes' = filterLoop(entries', 1, <<>>)
          /\ indexesOut' = validatorIndexes'
          /\ ResolverLoop(0, <<>>, wr \cup {"indexes"})

\* the constructor of CsvRecord: the text of the file once it returns
construct_always(exists, text) == header \o <<NL>>

construct(exists, text) == IF exists THEN text ELSE header \o <<NL>>

\* runScript up to its first await: the constructor, getLastSlot and the
\* first loop test
Start ==
  /\ pc = "boot"
  /\ LET f == construct(fileExists, file)
         cp == getLastSlot(f)
     IN  /\ fileExists' = TRUE
         /\ checkpoint' = cp
         /\ LoopTest(Inc(lastSlotOr(cp)), f, pending, stream, {})
  /\ interruptedAt' = Null
  /\ UNCHANGED <<run, stop, appended, returned, logged, deposits,
                 graffitiVars>>

\* the record addEntry is given for a block of the response
entryOf(b) ==
  Row(parseInt(b.slot), parseInt(b.proposerIndex), parseGraffiti(b.body.graffiti))

\* fetchBlock resolves: every block is given to addEntry, slot++, loop test
FetchOk(blocks) ==
  /\ pc = "fetch"
  /\ LET rows == [k \in 1..Len(blocks) |-> entryOf(blocks[k])]
         chunks == [k \in 1..Len(rows) |-> rowText(rows[k])]
     IN  /\ appended' = appended \o rows
         /\ returned' = returned \o rows
         /\ LoopTest(slot + 1, file, pending \o chunks,
                     IF stream = "none" /\ rows # <<>> THEN "opening" ELSE stream,
                     written)
  /\ UNCHANGED <<run, stop, interruptedAt, fileExists, checkpoint, logged,
                 deposits, graffitiVars>>

\* process.exit(1) in the catch of runScript(): the chunks not yet on disk
\* are gone
Exit1 ==
  /\ pc' = "exit1"
  /\ pending' = <<>>
  /\ stream' = "none"
  /\ UNCHANGED <<run, stop, interruptedAt, fileExists, file, scanVars,
                 filterVars, resolverVars, written, graffitiVars>>

\* fetchBlock rejects
FetchFail ==
  /\ pc = "fetch"
  /\ Exit1

\* the explorer answers a batch: its deposits are examined, i += step, loop
\* test
DepositsOk(data) ==
  /\ pc = "resolve"
  /\ deposits' = deposits \o data
  /\ logged' = logged \o badKeys(data)
  /\ validatorIndexes' = validatorIndexes
  /\ ResolverLoop(i + step, addresses \o goodAddresses(data), written)
  /\ UNCHANGED <<run, stop, interruptedAt, storeVars, scanVars, entries,
                 indexesOut, graffitiVars>>

\* a rejected request that is skipped: the loop goes on with the next batch
DepositsFail_skip ==
  /\ pc = "resolve"
  /\ validatorIndexes' = validatorIndexes
  /\ ResolverLoop(i + step, addresses, written)
  /\ UNCHANGED <<run, stop, interruptedAt, storeVars, scanVars, entries,
                 indexesOut, logged, deposits, graffitiVars>>

\* the request of a batch rejects
DepositsFail ==
  /\ pc = "resolve"
  /\ Exit1

\* SIGINT without a handler: the signal ends the process
Sigint_exit ==
  /\ pc \in {"fetch", "resolve"}
  /\ stop' = TRUE
  /\ interruptedAt' =
       IF ~stop /\ pc = "fetch" THEN slot ELSE interruptedAt
  /\ pc' = "exit1"
  /\ pending' = <<>>
  /\ stream' = "none"
  /\ UNCHANGED <<run, fileExists, file, scanVars, filterVars, resolverVars,
                 written, graffitiVars>>

\* the SIGINT handler; it runs between two steps of the main thread
Sigint ==
  /\ pc \in {"fetch", "resolve"}
  /\ stop' = TRUE
  /\ interruptedAt' =
       IF ~stop /\ pc = "fetch" THEN slot ELSE interruptedAt
  /\ UNCHANGED <<run, pc, storeVars, scanVars, filterVars, resolverVars,
                 written, graffitiVars>>

\* the write stream's file is open
StreamOpened ==
  /\ pc \in {"fetch", "resolve", "done"}
  /\ stream = "opening"
  /\ stream' = "open"
  /\ UNCHANGED <<run, pc, stop, interruptedAt, fileExists, file, pending,
                 scanVars, filterVars, resolverVars, written, graffitiVars>>

\* a chunk of the stream reaches the disk
Drain ==
  /\ pc \in {"fetch", "resolve", "done"}
  /\ stream = "open"
  /\ pending # <<>>
  /\ file' = file \o Head(pending)
  /\ pending' = Tail(pending)
  /\ UNCHANGED <<run, pc, stop, interruptedAt, fileExists, stream, scanVars,
                 filterVars, resolverVars, written, graffitiVars>>

\* the process has ended (with status 1, or with nothing left to write) and
\* the operator starts the script again
Restart ==
  /\ run < MaxRuns
  /\ pc = "exit1" \/ (pc = "done" /\ pending = <<>>)
  /\ run' = run + 1
  /\ pc' = "boot"
  /\ stop' = FALSE
  /\ stream' = "none"
  /\ pending' = <<>>
  /\ checkpoint' = Null
  /\ slot' = 0
  /\ fetched' = <<>>
  /\ entries' = <<>>
  /\ validatorIndexes' = <<>>
  /\ i' = 0
  /\ requests' = <<>>
  /\ addresses' = <<>>
  /\ logged' = <<>>
  /\ deposits' = <<>>
  /\ UNCHANGED <<interruptedAt, written, fileExists, file, appended, returned,
                 indexesOut, addressesOut, graffitiVars>>

Next ==
  \/ Start
  \/ \E blocks \in BlockResponses(slot) : FetchOk(blocks)
  \/ FetchFail
  \/ \E data \in DepositResponses : DepositsOk(data)
  \/ DepositsFail
  \/ Sigint
  \/ StreamOpened
  \/ Drain

\* one run of the script, from any record store
Spec == Init /\ [][Next]_vars

\* the script run again after it ended
NextRuns ==
  \/ Next
  \/ Restart

SpecRuns == Init /\ [][NextRuns]_vars

(***************************************************************************)
(* parseGraffiti alone, on every short byte field.                         *)
(***************************************************************************)
GraffitiBytes == {0, 116, 127}

\* "test" followed by four NUL bytes
testPadded == <<116, 101, 115, 116, 0, 0, 0, 0>>

ByteFields ==
  UNION {[1..n -> GraffitiBytes] : n \in 0..MaxBytes} \cup {testPadded}

InitGraffiti ==
  /\ InitRun
  /\ pc = "graffiti"
  /\ fileExists = TRUE
  /\ file = header \o <<NL>>
  /\ appended = <<>>
  /\ returned = <<>>
  /\ validatorIndexes = <<>>
  /\ addressesOut = <<>>
  /\ gIn \in ByteFields

\* the beacon API sends the field as base64 and parseGraffiti decodes it
Decode ==
  /\ pc = "graffiti"
  /\ gOut' = parseGraffiti(b64Encode(gIn))
  /\ pc' = "graffitiDone"
  /\ UNCHANGED <<run, stop, interruptedAt, storeVars, scanVars, filterVars,
                 resolverVars, written, gIn>>

NextGraffiti ==
  \/ Decode

SpecGraffiti == InitGraffiti /\ [][NextGraffiti]_vars

(***************************************************************************)
(* fetchDepositAddresses alone, called with a given index list.            *)
(***************************************************************************)
InitResolver ==
  /\ InitRun
  /\ pc = "call"
  /\ fileExists = TRUE
  /\ file = header \o <<NL>>
  /\ appended = <<>>
  /\ returned = <<>>
  /\ gIn = <<>>

\* the call: addresses = [], i = 0 and the first loop test
CallResolver ==
  /\ pc = "call"
  /\ validatorIndexes' = validatorIndexes
  /\ ResolverLoop(0, <<>>, written)
  /\ UNCHANGED <<run, stop, interruptedAt, storeVars, scanVars, entries,
                 indexesOut, logged, deposits, graffitiVars>>

\* index lists of every length up to MaxIndexes
InitBatch ==
  /\ InitResolver
  /\ addressesOut = <<>>
  /\ \E n \in 0..MaxIndexes : validatorIndexes = [k \in 1..n |-> 1000 + k]

NextBatch ==
  \/ CallResolver
  \/ \E data \in DepositResponses : DepositsOk(data)

SpecBatch == InitBatch /\ [][NextBatch]_vars

\* every deposit list of up to MaxDeposits deposits
AllDeposits ==
  { Deposit(a, f, IF f = "0xa" THEN "k1" ELSE "k2", r, v) :
      a \in {MinDeposit - 1, MinDeposit, MinDeposit + 1},
      f \in {"0xa", "0xb"}, r \in BOOLEAN, v \in BOOLEAN }

DepositLists == UNION {[1..n -> AllDeposits] : n \in 0..MaxDeposits}

InitDeposit ==
  /\ InitResolver
  /\ addressesOut = <<>>
  /\ validatorIndexes = <<5, 6>>

NextDeposit ==
  \/ CallResolver
  \/ \E data \in DepositLists : DepositsOk(data)
  \/ DepositsFail

SpecDeposit == InitDeposit /\ [][NextDeposit]_vars

(***************************************************************************)
(* The script with a beacon API whose answer to the request for a slot may *)
(* carry a block of an earlier slot: fetchBlock returns the blocks of the  *)
(* response as they are, and the record takes the slot of the block.       *)
(***************************************************************************)
StaleResponses(s) == { <<Block(s - 2, 5, gDapp)>> }

NextStale ==
  \/ Next
  \/ \E blocks \in StaleResponses(slot) : FetchOk(blocks)

SpecStale == Init /\ [][NextStale]_vars

(***************************************************************************)
(* fetchDepositAddresses with requests that may be rejected, in a run that *)
(* finds the addresses.txt of an earlier run.                              *)
(***************************************************************************)
PreviousAddresses == {<<>>, <<"0xold">>}

InitFail ==
  /\ InitResolver
  /\ \E n \in 0..MaxIndexes : validatorIndexes = [k \in 1..n |-> 1000 + k]
  /\ addressesOut \in PreviousAddresses

NextFail ==
  \/ CallResolver
  \/ \E data \in DepositResponses : DepositsOk(data)
  \/ DepositsFail

SpecFail == InitFail /\ [][NextFail]_vars

(***************************************************************************)
(* Properties.                                                             *)
(***************************************************************************)
Max(a, b) == IF a >= b THEN a ELSE b

\* the run has read a numeric checkpoint S from the store
HasCheckpoint == pc # "boot" /\ checkpoint # Null /\ checkpoint # NaN

C2_FreshScanCoversRange ==
  (checkpoint = Null /\ pc \in {"resolve", "done"} /\ interruptedAt = Null) =>
    fetched = [k \in 1..(toSlot - fromSlot + 1) |-> fromSlot + k - 1]

\* C3: when an interrupt arrives while slot s is fetched, every record
\* returned for s is appended before the loop is left, no later slot is
\* fetched in that run, and the next run resumes after the slot of the last
\* record appended.
C3_InterruptedSlotIsResumePoint ==
  /\ [](interruptedAt # Null /\ pc \in {"resolve", "done"} =>
          /\ fetched[Len(fetched)] = interruptedAt
          /\ appended = returned)
  /\ [][(pc = "boot" /\ interruptedAt # Null /\ "indexes" \in written
           /\ appended # <<>> /\ pc' = "fetch") =>
          fetched'[1] = appended[Len(appended)].slot + 1]_vars

\* C4: every record given to addEntry is among the records readEntries
\* returns once the stream has written all its chunks.
C4_RoundTrip ==
  (pc = "done" /\ pending = <<>>) =>
    \A k \in 1..Len(appended) : appended[k] \in Range(readEntries(file))

\* C5: readEntries returns exactly the appended records, in append order.
C5_ReadAllIsAppended ==
  (pc = "done" /\ pending = <<>>) => readEntries(file) = appended

\* the bytes of a field that precede its first zero byte
BeforeFirstZero(b) ==
  LET zeros == {k \in 1..Len(b) : b[k] = 0}
  IN  IF zeros = {} THEN b
      ELSE SubSeq(b, 1, (CHOOSE k \in zeros : \A m \in zeros : k <= m) - 1)

\* C6: parseGraffiti returns the bytes of the field that precede its first
\* zero byte, all of them when there is none; "dGVzdAAAAAA=" gives "test".
C6_TruncatesAtFirstZero ==
  /\ pc = "graffitiDone" => gOut = BeforeFirstZero(gIn)
  /\ parseGraffiti(<<100, 71, 86, 122, 100, 65, 65, 65, 65, 65, 65, 61>>)
       = <<116, 101, 115, 116>>

\* a field with two zero bytes and a non-zero byte between them was decoded
C6_Witness ==
  /\ pc = "graffitiDone"
  /\ gIn = <<116, 0, 127, 0>>
  /\ gOut = <<116>>

\* the filter pass of the run has read the store
Filtered == "indexes" \in written

\* the positions of the entries read whose slot is in [fromSlot, toSlot] and
\* whose graffiti matches the pattern
Matching ==
  {k \in 1..Len(entries) :
     /\ entries[k].slot # NaN
     /\ fromSlot <= entries[k].slot
     /\ entries[k].slot <= toSlot
     /\ test(entries[k].graffiti)}

\* C7: a proposer index is in the index list iff the store holds a record
\* with this index whose slot is in the window and whose graffiti matches.
C7_FilterCorrect ==
  Filtered =>
    /\ Range(validatorIndexes) = {entries[k].proposerIndex : k \in Matching}
    /\ indexesOut = validatorIndexes

\* the store held a record with a matching graffiti below the window and one
\* at toSlot: only the index of the latter is in the list
C7_Witness ==
  /\ Filtered
  /\ \E k \in 1..Len(entries) :
       /\ entries[k].slot = fromSlot - 2
       /\ test(entries[k].graffiti)
       /\ entries[k].proposerIndex \notin Range(validatorIndexes)
  /\ \E k \in Matching :
       /\ entries[k].slot = toSlot
       /\ entries[k].proposerIndex \in Range(validatorIndexes)

\* the position of the first matching record of proposer index v
FirstMatch(v) ==
  CHOOSE k \in Matching :
    /\ entries[k].proposerIndex = v
    /\ \A m \in Matching : entries[m].proposerIndex = v => k <= m

\* C8: the index list holds each matching proposer index once, in the order
\* of the first matching record of each.
C8_DedupFirstSeen ==
  Filtered =>
    /\ \A k \in Matching : entries[k].proposerIndex \in Range(validatorIndexes)
    /\ \A a \in 1..Len(validatorIndexes) :
         \E k \in Matching : entries[k].proposerIndex = validatorIndexes[a]
    /\ \A a, b \in 1..Len(validatorIndexes) :
         a < b =>
           /\ validatorIndexes[a] # validatorIndexes[b]
           /\ FirstMatch(validatorIndexes[a]) < FirstMatch(validatorIndexes[b])

\* matching records with the proposer indexes 5, 6, 5 gave the list 5, 6
C8_Witness ==
  /\ Filtered
  /\ validatorIndexes = <<5, 6>>
  /\ \E a, b, c \in Matching :
       /\ a < b /\ b < c
       /\ entries[a].proposerIndex = 5
       /\ entries[b].proposerIndex = 6
       /\ entries[c].proposerIndex = 5

\* a deposit the claim calls valid (32 stands for 32000000000 base units)
Valid(d) == d.amount >= 32 /\ d.removed = FALSE /\ d.valid_signature = TRUE

Invalid(d) == ~Valid(d)

\* C9: the from-addresses collected are those of the valid deposits received,
\* in order; the other deposits are logged by public key, and examining a
\* response never ends the run with status 1.
C9_DepositValidity ==
  /\ [](/\ addresses =
             [k \in 1..Len(SelectSeq(deposits, Valid)) |->
                SelectSeq(deposits, Valid)[k].from_address]
        /\ logged =
             [k \in 1..Len(SelectSeq(deposits, Invalid)) |->
                SelectSeq(deposits, Invalid)[k].publickey])
  /\ [][deposits' # deposits => pc' \in {"resolve", "done"}]_vars

\* a deposit below the threshold was logged and one of exactly the threshold
\* gave its address, and the run completed
C9_Witness ==
  /\ pc = "done"
  /\ deposits = <<Deposit(31, "0xb", "k2", FALSE, TRUE),
                  Deposit(32, "0xa", "k1", FALSE, TRUE)>>
  /\ addresses = <<"0xa">>
  /\ logged = <<"k2">>
  /\ addressesOut = <<"0xa">>

RECURSIVE Flatten(_)
Flatten(qs) == IF qs = <<>> THEN <<>> ELSE qs[1] \o Flatten(Tail(qs))

\* C10: for a list of n indexes the resolver requests ceil(n / 100) batches,
\* in list order, each of 100 indexes but the last, which has the rest; their
\* concatenation is the list.
C10_Batching ==
  LET n == Len(validatorIndexes)
      batches == (n + 99) \div 100
  IN  /\ Len(requests) <= batches
      /\ \A k \in 1..Len(requests) :
           /\ Len(requests[k]) = IF k < batches THEN 100 ELSE n - 100 * (batches - 1)
           /\ \A m \in 1..Len(requests[k]) :
                requests[k][m] = validatorIndexes[100 * (k - 1) + m]
      /\ pc = "done" =>
           /\ Len(requests) = batches
           /\ Flatten(requests) = validatorIndexes

\* a list of 250 indexes was resolved in three requests of 100, 100 and 50
C10_Witness ==
  /\ pc = "done"
  /\ Len(validatorIndexes) = 250
  /\ Len(requests) = 3
  /\ Len(requests[1]) = 100
  /\ Len(requests[2]) = 100
  /\ Len(requests[3]) = 50

\* the rows of the store that are the header line
HeaderRows ==
  LET rows == rowsOf(file)
  IN  {k \in 1..Len(rows) : rows[k] = header}

\* C11: opening the store on a path that does not exist creates the file with
\* exactly the header line; opening it when it exists, whatever rows were
\* appended before, leaves its text unchanged, and the header stays its first
\* line and occurs once.
C11_IdempotentHeader ==
  /\ [][(pc = "boot" /\ pc' # "boot") =>
          /\ fileExists'
          /\ file' = IF fileExists THEN file ELSE header \o <<NL>>]_vars
  /\ [](fileExists => HeaderRows = {1})

\* the store was opened by a second run after the first run had appended a
\* row to it, and it holds the header once, followed by rows
C11_Witness ==
  /\ run = 2
  /\ pc = "fetch"
  /\ pending = <<>>
  /\ HeaderRows = {1}
  /\ Len(rowsOf(file)) >= 2
  /\ Len(appended) >= 1
  /\ file = header \o <<NL>> \o rowsText(appended)

\* C12: when a line of the store after the header has a slot or proposerIndex
\* field that is not a number, reading the store fails and no index list is
\* produced.
C12_MalformedAbortsAggregation ==
  Filtered =>
    \A k \in 2..Len(entries) :
      entries[k].slot # NaN /\ entries[k].proposerIndex # NaN

\* the run started last ended when a fetch was rejected
FetchFailed == pc = "exit1" /\ written = {}

\* C13: when the fetch of slot s fails, the run issues no further request,
\* writes neither output file and exits with status 1; the records of the
\* slots completed before s are in the store, so that the next run fetches
\* none of these slots again.
C13_FetchFailureFatal ==
  /\ [][(pc = "fetch" /\ pc' = "exit1") =>
          /\ fetched' = fetched
          /\ requests' = <<>>
          /\ written' = {}
          /\ indexesOut' = indexesOut
          /\ addressesOut' = addressesOut]_vars
  /\ [][FetchFailed => pc' \in {"exit1", "boot"} /\ file' = file]_vars
  /\ [][(pc = "boot" /\ run > 1 /\ written = {} /\ pc' = "fetch") =>
          \A k \in 1..Len(returned) : returned[k].slot < fetched'[1]]_vars

\* C14: when the request of a batch fails (a step of the awaited request
\* that brings no deposits), the run exits with status 1 without another
\* request and without writing addresses.txt, whose previous lines stay; the
\* addresses of the batches before it are in no output.
C14_ResolverFailureFatal ==
  /\ [][(pc = "resolve" /\ deposits' = deposits) =>
          /\ pc' = "exit1"
          /\ requests' = requests
          /\ addressesOut' = addressesOut
          /\ written' = written]_vars
  /\ [][pc = "exit1" =>
          UNCHANGED <<pc, requests, addressesOut, written>>]_vars
  /\ [](pc = "exit1" => "addresses" \notin written)

\* the request of the second batch of 250 indexes failed after the first
\* batch had given addresses; addresses.txt has its earlier line
C14_Witness ==
  /\ pc = "exit1"
  /\ Len(validatorIndexes) = 250
  /\ Len(requests) = 2
  /\ addresses # <<>>
  /\ addressesOut = <<"0xold">>

\* C15: the slots of the records appended in one run never decrease in
\* append order: every record appended after another record of the same run
\* (the run has created its write stream, or the record before it is of the
\* same response) has a slot at least as large.
C15_MonotoneStore ==
  [][\A k \in (Len(appended) + 1)..Len(appended') :
       (k > Len(appended) + 1 \/ (stream # "none" /\ k > 1)) =>
         Leq(appended'[k - 1].slot, appended'[k].slot)]_vars

\* C16: when the process exits during the scan, the only records of fetched
\* blocks that can be missing from the file are those of the slot in flight;
\* the exit comes with the rejected fetch of that slot, which returned no
\* record, so the file holds the rows of all the records appended.
C16_CrashLosesOnlyInFlight ==
  FetchFailed => file = header \o <<NL>> \o rowsText(appended)

\* a record whose row is one line of the file
OneLine(r) == \A k \in 1..Len(r.graffiti) : r.graffiti[k] # NL

\* C17: every record appended by the scan loop, those of the last slot
\* scanned included, is among the entries the filter pass of the same run
\* reads back (stated for the records whose graffiti has no line break).
C17_WriteThenRead ==
  (Filtered /\ pc \in {"resolve", "done"}) =>
    \A k \in 1..Len(appended) :
      OneLine(appended[k]) => appended[k] \in Range(entries)

\* the scan of the run went past toSlot, the run is over and its stream has
\* written everything
ScanCompleted == pc = "done" /\ pending = <<>> /\ slot # NaN /\ slot > toSlot

\* C18: after runs ended by an interrupt or a rejected fetch and one run
\* whose scan completes, the store holds exactly one record of every block
\* the API returned, and no slot of [fromSlot, toSlot] was skipped: a scan
\* that found no checkpoint has fetched them all.
C18_CoverageAcrossRuns ==
  ScanCompleted =>
    /\ file = header \o <<NL>> \o rowsText(returned)
    /\ checkpoint = Null => \A s \in fromSlot..toSlot : s \in Range(fetched)

\* C19: an interrupt stops only the scan.  Once the flag is set no slot is
\* fetched; the step that ends the awaited fetch runs the filter pass, writes
\* validatorIndexes.txt and starts the resolver; the handler changes nothing
\* but the flag, the resolver goes through all its batches whatever the flag
\* is, and a run that returns has written both output files.
C19_InterruptStopsOnlyScan ==
  /\ [][stop => fetched' = fetched]_vars
  /\ [][(pc = "fetch" /\ stop /\ pc' \notin {"fetch", "exit1"}) =>
          /\ pc' \in {"resolve", "done"}
          /\ "indexes" \in written'
          /\ indexesOut' = validatorIndexes'
          /\ validatorIndexes' = filterLoop(entries', 1, <<>>)]_vars
  /\ [][stop' # stop =>
          UNCHANGED <<pc, storeVars, filterVars, resolverVars, written>>]_vars
  /\ [][(pc = "resolve" /\ deposits' # deposits) =>
          /\ i' = i + step
          /\ pc' = IF i' < Len(validatorIndexes) THEN "resolve" ELSE "done"]_vars
  /\ [](pc = "done" =>
          /\ written = {"indexes", "addresses"}
          /\ indexesOut = validatorIndexes
          /\ addressesOut = unique(addresses))

\* an interrupt came during the fetch of fromSlot, the loop ended before
\* toSlot, and the run went on to write an index list of one index and its
\* addresses
C19_Witness ==
  /\ pc = "done"
  /\ stop
  /\ interruptedAt = fromSlot
  /\ slot = toSlot
  /\ fetched = <<fromSlot - 1, fromSlot>>
  /\ written = {"indexes", "addresses"}
  /\ validatorIndexes = <<5>>
  /\ Len(requests) = 1
  /\ addressesOut # <<>>

=============================================================================
